---- MODULE Spec2Model ----
(***************************************************************************)
(* SimpleAuthMiddleware (src/src/simple.rs): a bearer-token interceptor in *)
(* front of a downstream actix Service.  Strings are sequences of UTF-8    *)
(* bytes; every request handled by one middleware instance is a small      *)
(* state machine over the future that `call` returns.                      *)
(***************************************************************************)
EXTENDS Integers, Sequences, FiniteSets, TLC

\* ------------------------------------------------------------------ bounds
\* Requests handled by one middleware instance.
MaxReqs == 2
\* Characters of a header given to get_token on its own.
MaxChars == 9

\* ------------------------------------------------------- Option and Result
Some(v) == <<"Some", v>>
None == <<"None">>
Ok(v) == <<"Ok", v>>
Err(e) == <<"Err", e>>
IsSome(o) == o[1] = "Some"
IsOk(x) == x[1] = "Ok"
\* Result::ok(): Ok(v) becomes Some(v), the error is dropped.
ResultOk(x) == IF IsOk(x) THEN Some(x[2]) ELSE None

\* ------------------------------------------------------------ str slicing
\* "Bearer " as bytes: B e a r e r SPACE.
BearerPrefix == <<66, 101, 97, 114, 101, 114, 32>>
\* The byte offset where the prefix ends and the token starts.
PrefixEnd == 7

\* str::is_char_boundary: offset i (0-based) starts a character or is the end.
\* A byte in 128..191 continues a multi-byte character.
is_char_boundary(s, i) ==
    IF i = 0 THEN TRUE
    ELSE IF i >= Len(s) THEN i = Len(s)
    ELSE s[i + 1] < 128 \/ s[i + 1] >= 192

\* str::get(a..b): the bytes a..b-1, when both ends are character boundaries.
str_get(s, a, b) ==
    IF a <= b /\ is_char_boundary(s, a) /\ is_char_boundary(s, b)
    THEN Some(SubSeq(s, a + 1, b))
    ELSE None

\* str::get(a..): the bytes from a on, when a is a character boundary.
str_get_from(s, a) ==
    IF is_char_boundary(s, a) THEN Some(SubSeq(s, a + 1, Len(s))) ELSE None

\* The same test on the first six bytes only: "Bearer" without the separator.
get_token_no_space(auth_header) ==
    IF str_get(auth_header, 0, PrefixEnd - 1) = Some(SubSeq(BearerPrefix, 1, PrefixEnd - 1))
    THEN str_get_from(auth_header, PrefixEnd - 1)
    ELSE None

\* A prefix test that looks only at where the prefix ends, not at what it is.
get_token_any_scheme(auth_header) ==
    IF IsSome(str_get(auth_header, 0, PrefixEnd))
    THEN str_get_from(auth_header, PrefixEnd)
    ELSE None

\* The token cut one byte early: the separator stays in front of it.
get_token_keeps_space(auth_header) ==
    IF str_get(auth_header, 0, PrefixEnd) = Some(BearerPrefix)
    THEN str_get_from(auth_header, PrefixEnd - 1)
    ELSE None

\* get_token, lines 94-99.
get_token(auth_header) ==
    IF str_get(auth_header, 0, PrefixEnd) = Some(BearerPrefix)
    THEN str_get_from(auth_header, PrefixEnd)
    ELSE None

\* HeaderValue::to_str that never fails: bytes that are not text pass as text.
to_str_lossy(value) == Ok(value)

\* HeaderValue::to_str: the bytes as text when each is visible ASCII or a tab.
to_str(value) ==
    IF \A i \in 1..Len(value) : (value[i] >= 32 /\ value[i] < 127) \/ value[i] = 9
    THEN Ok(value)
    ELSE Err("ToStrError")

\* ------------------------------------------------------------------ inputs
ReqIds == 1..MaxReqs
Methods == {"OPTIONS", "GET"}
\* AUTHORIZATION header values: "Bearer t", "Bearer " (empty token),
\* "not bearer", and "Bearer " followed by a byte that is not text.
HeaderValues ==
    { BearerPrefix \o <<116>>,
      BearerPrefix,
      <<110, 111, 116, 32, 98, 101, 97, 114, 101, 114>>,
      BearerPrefix \o <<255>> }
\* headers().get("AUTHORIZATION"): absent, or the value.
Headers == {None} \cup {Some(v) : v \in HeaderValues}
\* The tokens those headers can yield.
Tokens == {<<>>, <<116>>}

\* --------------------------------------------------------------- errors
\* actix_web::Error::from(e): the error boxed, its cause kept.
ErrorFrom(e) == [cause |-> e]
\* ServiceError::Unauthorized.into(), the rejection made by the middleware.
Unauthorized == ErrorFrom([ty |-> "ServiceError", v |-> "Unauthorized"])
\* What the checker's verify_and_decode fails with: a failure::Error, here the
\* one FakeChecker makes from ServiceError::Unauthorized (line 132).
CheckerErrors == { [ty |-> "failure::Error", v |-> "Unauthorized"] }
\* Decoded claim sets, by the registered field the options judge.
ClaimSets == {[iss |-> "trusted"], [iss |-> "unknown"]}
VerifyResults == {Ok(c) : c \in ClaimSets} \cup {Err(e) : e \in CheckerErrors}
\* ValidationOptions, as configured in SimpleAuth.
ValidationOptionsDefault == [issuer |-> "trusted"]
\* T::check: the claims' registered fields validated against the options.
check(claim_set, options) ==
    IF claim_set.iss = options.issuer
    THEN Ok("unit")
    ELSE Err([ty |-> "failure::Error", v |-> "ValidationError"])

\* What the downstream service's future resolves to for a request.
ServiceResults(req) ==
    { Ok([status |-> "200", request |-> req]),
      Err(ErrorFrom([ty |-> "Handler", v |-> "Failed"])) }
\* What the downstream service's poll_ready can say: Poll::Ready(Ok(())),
\* Poll::Pending, Poll::Ready(Err(..)).
Readiness == {"ReadyOk", "Pending", "ReadyErr"}
NotPolled == [kind |-> "NotPolled", service |-> "", returned |-> ""]
NoOutcome == <<"NoOutcome">>
NoRequest == [method |-> "", header |-> None]

VARIABLES
    checker_verify,      \* the Checker's verify_and_decode, by token
    validation_options,  \* SimpleAuthMiddleware.validation_options
    refmut,              \* requests whose future holds a RefMut of service
    pc,                  \* where each request's future stands
    request,             \* the ServiceRequest given to call
    outcome,             \* what the request's future resolved to
    verify_calls,        \* tokens passed to verify_and_decode, per request
    check_calls,         \* <<claims, options>> passed to check, per request
    service_calls,       \* requests passed to the downstream call, per request
    gt_chars,            \* get_token on its own: the header, as characters
    gt_result,           \* get_token on its own: what it returned
    ready_ret            \* the last poll_ready: what the service said, what came back

vars == <<checker_verify, validation_options, refmut, pc, request,
          outcome, verify_calls, check_calls, service_calls, gt_chars, gt_result,
          ready_ret>>
reqvars == <<refmut, pc, request, outcome, verify_calls, check_calls, service_calls>>
fixedvars == <<checker_verify, validation_options>>
gtvars == <<gt_chars, gt_result>>
readyvars == <<ready_ret>>

\* ------------------------------------------------------------------- Init
\* SimpleAuth::new_transform: a fresh RefCell around the service, the checker
\* and a copy of the validation options.
new_transform ==
    /\ checker_verify \in [Tokens -> VerifyResults]
    /\ validation_options = ValidationOptionsDefault
    /\ refmut = {}

Init ==
    /\ new_transform
    /\ pc = [r \in ReqIds |-> "Start"]
    /\ request = [r \in ReqIds |-> NoRequest]
    /\ outcome = [r \in ReqIds |-> NoOutcome]
    /\ verify_calls = [r \in ReqIds |-> <<>>]
    /\ check_calls = [r \in ReqIds |-> <<>>]
    /\ service_calls = [r \in ReqIds |-> <<>>]
    /\ gt_chars = <<>>
    /\ gt_result = <<"Unset">>
    /\ ready_ret = NotPolled

\* ---------------------------------------------------------------- actions
\* A service shared without the borrow check.
BorrowUnchecked == TRUE

\* RefCell::borrow_mut succeeds only when no RefMut is alive.
CanBorrowMut == refmut = {}

\* The decision of call with an absent header falling through to the
\* downstream instead of returning the rejection.
call_branch_absent_forwards(method, header) ==
    LET auth_header == IF IsSome(header) THEN ResultOk(to_str(header[2])) ELSE None
        token == IF IsSome(auth_header) THEN get_token(auth_header[2]) ELSE None
    IN
    IF method = "OPTIONS" THEN <<"Forward">>
    ELSE IF ~IsSome(header) THEN <<"Forward">>
    ELSE IF IsSome(auth_header) /\ IsSome(token) THEN <<"Verify", token[2]>>
    ELSE <<"Unauthorized">>

\* The decision call takes before it returns, lines 67-90: forward at once,
\* reject at once, or verify the token.
call_branch(method, header) ==
    LET auth_header == IF IsSome(header) THEN ResultOk(to_str(header[2])) ELSE None
        token == IF IsSome(auth_header) THEN get_token(auth_header[2]) ELSE None
    IN
    IF method = "OPTIONS" THEN <<"Forward">>
    ELSE IF ~IsSome(header) THEN <<"Unauthorized">>
    ELSE IF IsSome(auth_header) /\ IsSome(token) THEN <<"Verify", token[2]>>
    ELSE <<"Unauthorized">>

\* call with the downstream invoked as soon as a token is found, before the
\* verification has finished.
call_forwards_before_verify(r, method, header) ==
    LET req == [method |-> method, header |-> header]
        branch == call_branch(method, header)
    IN
    /\ pc[r] = "Start"
    /\ \A q \in ReqIds : q < r => pc[q] # "Start"
    /\ request' = [request EXCEPT ![r] = req]
    /\ IF branch[1] = "Forward"
       THEN IF CanBorrowMut
            THEN /\ service_calls' = [service_calls EXCEPT ![r] = Append(@, req)]
                 /\ pc' = [pc EXCEPT ![r] = "ServiceFut"]
                 /\ UNCHANGED verify_calls
            ELSE /\ pc' = [pc EXCEPT ![r] = "Panicked"]
                 /\ UNCHANGED <<service_calls, verify_calls>>
       ELSE IF branch[1] = "Verify"
       THEN /\ verify_calls' = [verify_calls EXCEPT ![r] = Append(@, branch[2])]
            /\ pc' = [pc EXCEPT ![r] = "AwaitVerify"]
            /\ service_calls' = [service_calls EXCEPT ![r] = Append(@, req)]
       ELSE /\ pc' = [pc EXCEPT ![r] = "Ready"]
            /\ UNCHANGED <<service_calls, verify_calls>>
    /\ UNCHANGED <<refmut, outcome, check_calls, fixedvars, gtvars, readyvars>>

\* call, lines 66-91.  Requests arrive in the order of their ids.  The
\* OPTIONS branch borrows the service for the length of the downstream call
\* expression; borrow_mut panics when a RefMut is alive.
call(r, method, header) ==
    LET req == [method |-> method, header |-> header]
        branch == call_branch(method, header)
    IN
    /\ pc[r] = "Start"
    /\ \A q \in ReqIds : q < r => pc[q] # "Start"
    /\ request' = [request EXCEPT ![r] = req]
    /\ IF branch[1] = "Forward"
       THEN IF CanBorrowMut
            THEN /\ service_calls' = [service_calls EXCEPT ![r] = Append(@, req)]
                 /\ pc' = [pc EXCEPT ![r] = "ServiceFut"]
                 /\ UNCHANGED verify_calls
            ELSE /\ pc' = [pc EXCEPT ![r] = "Panicked"]
                 /\ UNCHANGED <<service_calls, verify_calls>>
       ELSE IF branch[1] = "Verify"
       THEN /\ verify_calls' = [verify_calls EXCEPT ![r] = Append(@, branch[2])]
            /\ pc' = [pc EXCEPT ![r] = "AwaitVerify"]
            /\ UNCHANGED service_calls
       ELSE /\ pc' = [pc EXCEPT ![r] = "Ready"]
            /\ UNCHANGED <<service_calls, verify_calls>>
    /\ UNCHANGED <<refmut, outcome, check_calls, fixedvars, gtvars, readyvars>>

\* Polling future::err(ServiceError::Unauthorized.into()), lines 73 and 90.
poll_ready_err(r) ==
    /\ pc[r] = "Ready"
    /\ pc' = [pc EXCEPT ![r] = "Completed"]
    /\ outcome' = [outcome EXCEPT ![r] = Err(Unauthorized)]
    /\ UNCHANGED <<refmut, request, verify_calls, check_calls, service_calls,
                   fixedvars, gtvars, readyvars>>

\* The verify failure replaced by the middleware's own rejection.
verify_failure_coerced(e) == Err(Unauthorized)

\* The verify failure unwrapped instead of returned: the poll panics.
verify_failure_unwrapped(e) == <<"Panic", e>>

\* What the async block yields when verify_and_decode failed with e, line 82:
\* map_err(Error::from), then `?`.
verify_failure(e) == Err(ErrorFrom(e))

\* A match on check's result that forwards whatever check said.
check_allows_any(checked) == TRUE

\* The match on check's result, lines 83-86: Ok forwards, Err rejects.
check_allows(checked) == IsOk(checked)

\* Options built afresh instead of the configured ones.
validation_options_fresh == ValidationOptionsDefault

\* self.validation_options.clone(), line 79: the options the async block owns.
validation_options_clone == validation_options

\* The async block with check as a second suspension point: the poll that
\* sees the claims calls check and yields before the decision.
poll_async_check_suspends(r, ready, res) ==
    LET decoded == checker_verify[verify_calls[r][Len(verify_calls[r])]]
    IN
    /\ pc[r] = "AwaitVerify"
    /\ IF ~IsOk(decoded)
       THEN /\ pc' = [pc EXCEPT ![r] = "Completed"]
            /\ outcome' = [outcome EXCEPT ![r] = verify_failure(decoded[2])]
            /\ UNCHANGED check_calls
       ELSE /\ check_calls' = [check_calls EXCEPT
                                 ![r] = Append(@, <<decoded[2], validation_options_clone>>)]
            /\ pc' = [pc EXCEPT ![r] = "Validating"]
            /\ UNCHANGED outcome
    /\ UNCHANGED <<refmut, service_calls, request, verify_calls, fixedvars, gtvars,
                   readyvars>>

\* Polling the async block when the verify_and_decode future is ready,
\* lines 82-86.  `ready` says whether the downstream future resolves in this
\* same poll; otherwise the block stays suspended in it, its RefMut alive.
poll_async(r, ready, res) ==
    LET decoded == checker_verify[verify_calls[r][Len(verify_calls[r])]]
        checked == check(decoded[2], validation_options_clone)
    IN
    /\ pc[r] = "AwaitVerify"
    /\ IF ~IsOk(decoded)
       THEN /\ pc' = [pc EXCEPT ![r] = "Completed"]
            /\ outcome' = [outcome EXCEPT ![r] = verify_failure(decoded[2])]
            /\ UNCHANGED <<refmut, check_calls, service_calls>>
       ELSE /\ check_calls' = [check_calls EXCEPT
                                 ![r] = Append(@, <<decoded[2], validation_options_clone>>)]
            /\ IF ~check_allows(checked)
               THEN /\ pc' = [pc EXCEPT ![r] = "Completed"]
                    /\ outcome' = [outcome EXCEPT ![r] = Err(Unauthorized)]
                    /\ UNCHANGED <<refmut, service_calls>>
               ELSE IF ~CanBorrowMut
               THEN /\ pc' = [pc EXCEPT ![r] = "Panicked"]
                    /\ UNCHANGED <<refmut, outcome, service_calls>>
               ELSE /\ service_calls' = [service_calls EXCEPT ![r] = Append(@, request[r])]
                    /\ IF ready
                       THEN /\ res \in ServiceResults(request[r])
                            /\ pc' = [pc EXCEPT ![r] = "Completed"]
                            /\ outcome' = [outcome EXCEPT ![r] = res]
                            /\ UNCHANGED refmut
                       ELSE /\ pc' = [pc EXCEPT ![r] = "AwaitService"]
                            /\ refmut' = refmut \cup {r}
                            /\ UNCHANGED outcome
    /\ UNCHANGED <<request, verify_calls, fixedvars, gtvars, readyvars>>

\* The downstream call resolving with the RefMut of the block left alive.
poll_service_keeps_borrow(r, res) ==
    /\ pc[r] \in {"ServiceFut", "AwaitService"}
    /\ res \in ServiceResults(service_calls[r][1])
    /\ pc' = [pc EXCEPT ![r] = "Completed"]
    /\ outcome' = [outcome EXCEPT ![r] = res]
    /\ UNCHANGED <<refmut, request, verify_calls, check_calls, service_calls, fixedvars,
                   gtvars, readyvars>>

\* Polling a future suspended in the downstream call when that call resolves:
\* the S::Future of line 68, or the async block at line 84, whose RefMut dies.
poll_service(r, res) ==
    /\ pc[r] \in {"ServiceFut", "AwaitService"}
    /\ res \in ServiceResults(service_calls[r][1])
    /\ pc' = [pc EXCEPT ![r] = "Completed"]
    /\ outcome' = [outcome EXCEPT ![r] = res]
    /\ refmut' = refmut \ {r}
    /\ UNCHANGED <<request, verify_calls, check_calls, service_calls, fixedvars, gtvars, readyvars>>

\* A cancellation that forgets the future instead of dropping what it owns.
drop_leaks_refmut(r) ==
    /\ pc[r] \in {"Ready", "AwaitVerify", "ServiceFut", "AwaitService"}
    /\ pc' = [pc EXCEPT ![r] = "Dropped"]
    /\ UNCHANGED <<refmut, request, outcome, verify_calls, check_calls, service_calls,
                   fixedvars, gtvars, readyvars>>

\* The caller drops a future that has not resolved (cancellation).
drop(r) ==
    /\ pc[r] \in {"Ready", "AwaitVerify", "ServiceFut", "AwaitService"}
    /\ pc' = [pc EXCEPT ![r] = "Dropped"]
    /\ refmut' = refmut \ {r}
    /\ UNCHANGED <<request, outcome, verify_calls, check_calls, service_calls,
                   fixedvars, gtvars, readyvars>>

AllResults == UNION {ServiceResults([method |-> m, header |-> h]) : m \in Methods, h \in Headers}

Next ==
    \/ \E r \in ReqIds, m \in Methods, h \in Headers : call(r, m, h)
    \/ \E r \in ReqIds : poll_ready_err(r)
    \/ \E r \in ReqIds, ready \in BOOLEAN, res \in AllResults : poll_async(r, ready, res)
    \/ \E r \in ReqIds, res \in AllResults : poll_service(r, res)
    \/ \E r \in ReqIds : drop(r)

Spec == Init /\ [][Next]_vars

\* ------------------------------------------------------------ poll_ready
\* What poll_ready hands back of the service's own answer, line 63.
poll_ready_result(polled) == polled

\* poll_ready, lines 62-64: borrow the service for the length of the poll and
\* return what its poll_ready says; borrow_mut panics when a RefMut is alive.
poll_ready(polled) ==
    /\ ready_ret' =
         IF CanBorrowMut
         THEN [kind |-> "Returned", service |-> polled,
               returned |-> poll_ready_result(polled)]
         ELSE [kind |-> "Panicked", service |-> "", returned |-> ""]
    /\ UNCHANGED <<reqvars, fixedvars, gtvars>>

\* Checkers that treat every token alike: all accepted, or all refused.
UniformCheckers ==
    { [t \in Tokens |-> Ok([iss |-> "trusted"])],
      [t \in Tokens |-> Err([ty |-> "failure::Error", v |-> "Unauthorized"])] }

InitReady ==
    /\ checker_verify \in UniformCheckers
    /\ validation_options = ValidationOptionsDefault
    /\ refmut = {}
    /\ pc = [r \in ReqIds |-> "Start"]
    /\ request = [r \in ReqIds |-> NoRequest]
    /\ outcome = [r \in ReqIds |-> NoOutcome]
    /\ verify_calls = [r \in ReqIds |-> <<>>]
    /\ check_calls = [r \in ReqIds |-> <<>>]
    /\ service_calls = [r \in ReqIds |-> <<>>]
    /\ gt_chars = <<>>
    /\ gt_result = <<"Unset">>
    /\ ready_ret = NotPolled

NextReady ==
    \/ Next
    \/ \E polled \in Readiness : poll_ready(polled)

\* The middleware with its readiness polled between the steps of requests.
SpecReady == InitReady /\ [][NextReady]_vars

\* ------------------------------------------------- configured options
\* The ValidationOptions a SimpleAuth may be configured with.
ValidationOptionsSet == {[issuer |-> "trusted"], [issuer |-> "unknown"]}

InitOptions ==
    /\ checker_verify \in {[t \in Tokens |-> v] : v \in VerifyResults}
    /\ validation_options \in ValidationOptionsSet
    /\ refmut = {}
    /\ pc = [r \in ReqIds |-> "Start"]
    /\ request = [r \in ReqIds |-> NoRequest]
    /\ outcome = [r \in ReqIds |-> NoOutcome]
    /\ verify_calls = [r \in ReqIds |-> <<>>]
    /\ check_calls = [r \in ReqIds |-> <<>>]
    /\ service_calls = [r \in ReqIds |-> <<>>]
    /\ gt_chars = <<>>
    /\ gt_result = <<"Unset">>
    /\ ready_ret = NotPolled

\* The middleware under each configuration of its options.
SpecOptions == InitOptions /\ [][Next]_vars

\* ------------------------------------------------- get_token on its own
\* The characters a header may hold at position i (1-based), each as its
\* UTF-8 bytes: within the prefix the prefix's own byte, "b", or the two-byte
\* e-acute; after it "F", a space, or the three-byte ellipsis.
CharsAt(i) ==
    IF i <= PrefixEnd
    THEN {<<BearerPrefix[i]>>, <<98>>, <<195, 169>>}
    ELSE {<<70>>, <<32>>, <<226, 128, 166>>}

RECURSIVE CharSeqs(_)
\* Every header of exactly n characters.
CharSeqs(n) ==
    IF n = 0 THEN {<<>>}
    ELSE {Append(cs, c) : cs \in CharSeqs(n - 1), c \in CharsAt(n)}

RECURSIVE Utf8(_)
\* The &str a character sequence is: its characters' bytes, concatenated.
Utf8(cs) == IF cs = <<>> THEN <<>> ELSE Head(cs) \o Utf8(Tail(cs))

InitToken ==
    /\ checker_verify = [t \in Tokens |-> Ok([iss |-> "trusted"])]
    /\ validation_options = ValidationOptionsDefault
    /\ refmut = {}
    /\ pc = [r \in ReqIds |-> "Start"]
    /\ request = [r \in ReqIds |-> NoRequest]
    /\ outcome = [r \in ReqIds |-> NoOutcome]
    /\ verify_calls = [r \in ReqIds |-> <<>>]
    /\ check_calls = [r \in ReqIds |-> <<>>]
    /\ service_calls = [r \in ReqIds |-> <<>>]
    /\ gt_chars \in UNION {CharSeqs(n) : n \in 0..MaxChars}
    /\ gt_result = <<"Unset">>
    /\ ready_ret = NotPolled

\* get_token applied to the header, lines 94-99.
apply_get_token ==
    /\ gt_result = <<"Unset">>
    /\ gt_result' = get_token(Utf8(gt_chars))
    /\ UNCHANGED <<gt_chars, reqvars, fixedvars, readyvars>>

NextToken == apply_get_token

SpecToken == InitToken /\ [][NextToken]_vars
\* ------------------------------------------------------------- properties
\* A request's credential state, read off the request as the claims word it.
IsOptions(r) == request[r].method = "OPTIONS"
HeaderPresent(r) == request[r].header # None
\* Text: every byte of the value is a visible ASCII character, a space or a tab.
HeaderIsText(r) ==
    /\ HeaderPresent(r)
    /\ \A i \in 1..Len(request[r].header[2]) :
          LET b == request[r].header[2][i] IN (b >= 32 /\ b <= 126) \/ b = 9
HasBearerPrefix(r) ==
    /\ HeaderIsText(r)
    /\ Len(request[r].header[2]) >= 7
    /\ SubSeq(request[r].header[2], 1, 7) = <<66, 101, 97, 114, 101, 114, 32>>
TokenOf(r) == SubSeq(request[r].header[2], 8, Len(request[r].header[2]))
VerifySucceeds(r) == HasBearerPrefix(r) /\ IsOk(checker_verify[TokenOf(r)])
CheckSucceeds(r) ==
    VerifySucceeds(r) /\ IsOk(check(checker_verify[TokenOf(r)][2], ValidationOptionsDefault))
\* Prefix present, verify_and_decode succeeds and check succeeds.
Authenticated(r) == CheckSucceeds(r)

Called(r) == pc[r] # "Start"
\* The request's future ran to its end: it resolved, or it panicked.
Ended(r) == pc[r] \in {"Completed", "Panicked"}
NeverForwarded(r) == service_calls[r] = <<>>
ForwardedOnce(r) == service_calls[r] = <<request[r]>>
CheckerUntouched(r) == verify_calls[r] = <<>> /\ check_calls[r] = <<>>
RejectedUnauthorized(r) == pc[r] = "Completed" /\ outcome[r] = Err(Unauthorized)
\* Another request is suspended in its forwarded downstream call.
OtherForwardSuspended(r) == \E q \in ReqIds : q # r /\ pc[q] = "AwaitService"

\* C1: a request handled by call reaches the downstream, with that request,
\* if and only if it is OPTIONS or fully authenticated; otherwise never.
C1_ForwardedIffAllowed ==
    \A r \in ReqIds :
        /\ ~NeverForwarded(r) => ForwardedOnce(r) /\ (IsOptions(r) \/ Authenticated(r))
        /\ Ended(r) /\ (IsOptions(r) \/ Authenticated(r)) => ForwardedOnce(r)

\* C2: an OPTIONS request always reaches the downstream, whatever its headers
\* and whatever else is in flight, without the checker being used, and the
\* downstream's result is its outcome.
C2_OptionsAlwaysForwarded ==
    \A r \in ReqIds :
        Called(r) /\ IsOptions(r) =>
            /\ ForwardedOnce(r)
            /\ CheckerUntouched(r)
            /\ pc[r] \in {"ServiceFut", "Completed", "Dropped"}
            /\ pc[r] = "Completed" => outcome[r] \in ServiceResults(request[r])

\* C3: a non-OPTIONS request without an AUTHORIZATION header is rejected with
\* Unauthorized; the checker and the downstream are never invoked for it.
C3_NoHeaderRejected ==
    \A r \in ReqIds :
        Called(r) /\ ~IsOptions(r) /\ ~HeaderPresent(r) =>
            /\ CheckerUntouched(r)
            /\ NeverForwarded(r)
            /\ pc[r] \in {"Ready", "Completed", "Dropped"}
            /\ pc[r] = "Completed" => outcome[r] = Err(Unauthorized)

C3_Witness ==
    \E r \in ReqIds :
        ~IsOptions(r) /\ Called(r) /\ ~HeaderPresent(r) /\ RejectedUnauthorized(r)

\* C4: a non-OPTIONS request whose header text lacks the exact prefix
\* "Bearer " is rejected with Unauthorized, even under a checker that accepts
\* every token; the checker and the downstream are never invoked for it.
C4_PrefixMismatchRejected ==
    \A r \in ReqIds :
        Called(r) /\ ~IsOptions(r) /\ HeaderIsText(r) /\ ~HasBearerPrefix(r) =>
            /\ CheckerUntouched(r)
            /\ NeverForwarded(r)
            /\ pc[r] \in {"Ready", "Completed", "Dropped"}
            /\ pc[r] = "Completed" => outcome[r] = Err(Unauthorized)

\* "not bearer" rejected under a checker that accepts every token.
C4_Witness ==
    /\ \A t \in Tokens : checker_verify[t] = Ok([iss |-> "trusted"])
    /\ \E r \in ReqIds :
        /\ request[r] = [method |-> "GET",
                         header |-> Some(<<110, 111, 116, 32, 98, 101, 97, 114, 101, 114>>)]
        /\ RejectedUnauthorized(r)

\* C5: a non-OPTIONS request whose header is present but is not text is
\* rejected with Unauthorized; no token is taken from it, and the checker and
\* the downstream are never invoked for it.
C5_NotTextRejected ==
    \A r \in ReqIds :
        Called(r) /\ ~IsOptions(r) /\ HeaderPresent(r) /\ ~HeaderIsText(r) =>
            /\ CheckerUntouched(r)
            /\ NeverForwarded(r)
            /\ pc[r] \in {"Ready", "Completed", "Dropped"}
            /\ pc[r] = "Completed" => outcome[r] = Err(Unauthorized)

C5_Witness ==
    \E r \in ReqIds :
        /\ ~IsOptions(r) /\ HeaderPresent(r) /\ ~HeaderIsText(r)
        /\ RejectedUnauthorized(r)

\* C6: when verify_and_decode fails for the request's token, the outcome is
\* the checker's own failure, not the middleware's Unauthorized; check and
\* the downstream are never invoked for the request.
C6_VerifyFailurePropagated ==
    \A r \in ReqIds :
        Called(r) /\ ~IsOptions(r) /\ HasBearerPrefix(r) /\ ~VerifySucceeds(r) =>
            /\ verify_calls[r] = <<TokenOf(r)>>
            /\ check_calls[r] = <<>>
            /\ NeverForwarded(r)
            /\ pc[r] \in {"AwaitVerify", "Completed", "Dropped"}
            /\ pc[r] = "Completed" =>
                /\ outcome[r] = Err([cause |-> checker_verify[TokenOf(r)][2]])
                /\ outcome[r] # Err(Unauthorized)

\* The checker failed with its own Unauthorized, and that is what came out.
C6_Witness ==
    \E r \in ReqIds :
        /\ ~IsOptions(r) /\ HasBearerPrefix(r) /\ pc[r] = "Completed"
        /\ checker_verify[TokenOf(r)] = Err([ty |-> "failure::Error", v |-> "Unauthorized"])
        /\ outcome[r] = Err([cause |-> [ty |-> "failure::Error", v |-> "Unauthorized"]])

\* C7: when verify_and_decode succeeds and check rejects the claims, the
\* request is rejected with Unauthorized, nothing of check's error is in the
\* outcome, and the downstream is never invoked for the request.
C7_CheckFailureUnauthorized ==
    \A r \in ReqIds :
        Called(r) /\ ~IsOptions(r) /\ VerifySucceeds(r) /\ ~CheckSucceeds(r) =>
            /\ NeverForwarded(r)
            /\ pc[r] \in {"AwaitVerify", "Completed", "Dropped"}
            /\ pc[r] = "Completed" =>
                /\ check_calls[r] = <<<<checker_verify[TokenOf(r)][2], ValidationOptionsDefault>>>>
                /\ outcome[r] = Err(Unauthorized)

C7_Witness ==
    \E r \in ReqIds :
        /\ ~IsOptions(r) /\ VerifySucceeds(r) /\ ~CheckSucceeds(r)
        /\ Len(check_calls[r]) = 1
        /\ RejectedUnauthorized(r)

\* C8: a request with "Bearer <token>" that verifies and validates is passed
\* to the downstream unmodified, and the downstream's result is its outcome.
C8_AuthenticatedForwarded ==
    \A r \in ReqIds :
        Ended(r) /\ Authenticated(r) =>
            /\ ForwardedOnce(r)
            /\ pc[r] = "Completed"
            /\ outcome[r] \in ServiceResults(request[r])

\* The terminal outcome of a request handled alone (section 4.3).
SoloClass(r) ==
    IF IsOptions(r) THEN "Forward"
    ELSE IF ~HasBearerPrefix(r) THEN "RejectUnauthorized"
    ELSE IF ~VerifySucceeds(r) THEN "RejectPropagatedError"
    ELSE IF ~CheckSucceeds(r) THEN "RejectUnauthorized"
    ELSE "Forward"
\* The terminal outcome the request did reach.
ReachedClass(r) ==
    IF pc[r] = "Panicked" THEN "Panic"
    ELSE IF ~NeverForwarded(r) THEN "Forward"
    ELSE IF outcome[r] = Err(Unauthorized) THEN "RejectUnauthorized"
    ELSE "RejectPropagatedError"

\* C10: under any interleaving of requests on one middleware, each request
\* ends as it would alone; one that passes verification and validation while
\* another's forwarded call is suspended is itself forwarded.
C10_SameOutcomeAsAlone ==
    \A r \in ReqIds : Ended(r) => ReachedClass(r) = SoloClass(r)

\* ----------------------------------------------- properties of get_token
HeaderLen == Len(gt_chars)
\* The first seven characters are B, e, a, r, e, r, space.
PrefixMatches ==
    /\ HeaderLen >= 7
    /\ \A i \in 1..7 : gt_chars[i] = <<(<<66, 101, 97, 114, 101, 114, 32>>)[i]>>

\* C9: get_token returns the characters after the seventh, unchanged, exactly
\* when the first seven are the case-sensitive "Bearer "; nothing otherwise
\* (shorter input, other casing, other prefix).  "Bearer " gives the empty
\* token.
C9_GetToken ==
    gt_result # <<"Unset">> =>
        /\ PrefixMatches => gt_result = Some(Utf8(SubSeq(gt_chars, 8, HeaderLen)))
        /\ ~PrefixMatches => gt_result = None
        /\ Utf8(gt_chars) = <<66, 101, 97, 114, 101, 114, 32>> => gt_result = Some(<<>>)
        /\ Utf8(gt_chars) = <<66, 101, 97, 114, 101, 114>> => gt_result = None

\* "Bearer F" and an ellipsis give "F" and the ellipsis.
C9_Witness ==
    /\ gt_chars = <<<<66>>, <<101>>, <<97>>, <<114>>, <<101>>, <<114>>, <<32>>,
                    <<70>>, <<226, 128, 166>>>>
    /\ gt_result = Some(<<70, 226, 128, 166>>)
\* The rejections a request can be given: the middleware's Unauthorized, or
\* a failure of the checker's verify_and_decode, passed on.
Rejections ==
    { Err(Unauthorized),
      Err([cause |-> [ty |-> "failure::Error", v |-> "Unauthorized"]]) }

\* C11: a request that fails authentication (no header, header not text, no
\* prefix, verify failure, check failure) ends with a rejection result and
\* never with a panic, also while other requests have a forward in flight.
C11_FailuresAreRejections ==
    \A r \in ReqIds :
        Called(r) /\ ~IsOptions(r) /\ ~Authenticated(r) =>
            /\ pc[r] \in {"Ready", "AwaitVerify", "Completed", "Dropped"}
            /\ NeverForwarded(r)
            /\ pc[r] = "Completed" => outcome[r] \in Rejections

\* A verify failure rejected while another request's forward is suspended.
C11_Witness ==
    \E r \in ReqIds :
        /\ ~IsOptions(r) /\ HasBearerPrefix(r) /\ ~VerifySucceeds(r)
        /\ pc[r] = "Completed" /\ outcome[r] \in Rejections
        /\ OtherForwardSuspended(r)

\* C12: poll_ready returns exactly the service's own readiness in every
\* reachable state, also while requests are in flight.
C12_PollReadyTransparent ==
    ready_ret.kind # "NotPolled" =>
        /\ ready_ret.kind = "Returned"
        /\ ready_ret.returned = ready_ret.service

\* The step of request r is a cancellation while its verification is
\* outstanding.
CancelledVerifying(r) == pc[r] = "AwaitVerify" /\ pc'[r] = "Dropped"

\* C13: cancelling a request while verify_and_decode is outstanding leaves the
\* downstream uninvoked for it, then and ever after, leaves the service
\* unborrowed by it, and changes nothing shared with the other requests; what
\* remains is the call to the checker already made.
C13_CancelHasNoEffect ==
    [][\A r \in ReqIds :
         /\ CancelledVerifying(r) =>
              /\ service_calls' = service_calls /\ service_calls[r] = <<>>
              /\ refmut' = refmut /\ r \notin refmut
              /\ UNCHANGED <<checker_verify, validation_options, ready_ret>>
              /\ \A q \in ReqIds \ {r} : pc'[q] = pc[q] /\ outcome'[q] = outcome[q]
              /\ outcome' = outcome
              /\ verify_calls' = verify_calls /\ Len(verify_calls[r]) = 1
              /\ check_calls' = check_calls
         /\ pc[r] = "Dropped" =>
              /\ pc'[r] = "Dropped"
              /\ service_calls'[r] = service_calls[r]
              /\ r \notin refmut']_vars

\* A request cancelled while verifying, beside a request still in flight.
C13_Witness ==
    \E r \in ReqIds :
        /\ pc[r] = "Dropped" /\ Len(verify_calls[r]) = 1 /\ check_calls[r] = <<>>
        /\ NeverForwarded(r)
        /\ \E q \in ReqIds : q # r /\ pc[q] \in {"AwaitVerify", "AwaitService"}

\* No other request is in flight: each has not started, has ended, or was
\* cancelled.
RunsAlone(r) ==
    \A q \in ReqIds \ {r} : pc[q] \in {"Start", "Completed", "Panicked", "Dropped"}
\* This step ends request r.
EndsNow(r) == pc[r] \notin {"Completed", "Panicked", "Dropped"} /\ Ended(r)'

\* C14: invocations run one after the other, each to completion, classify a
\* request by the request, the checker and the options alone: whatever ran
\* before, the request ends as Forward, Reject-Unauthorized or
\* Reject-PropagatedError as section 4.3 says, and two completed invocations
\* of the same request are classified alike.
C14_Deterministic ==
    /\ [][\A r \in ReqIds :
            RunsAlone(r) /\ EndsNow(r) =>
                pc'[r] = "Completed" /\ ReachedClass(r)' = SoloClass(r)']_vars
    /\ [](\A r, q \in ReqIds :
            pc[r] = "Completed" /\ pc[q] = "Completed" /\ request[r] = request[q]
                => ReachedClass(r) = ReachedClass(q))

\* The same authenticated request, forwarded both times.
C14_Witness ==
    \E r, q \in ReqIds :
        /\ r < q /\ request[r] = request[q] /\ ~IsOptions(r) /\ Authenticated(r)
        /\ pc[r] = "Completed" /\ pc[q] = "Completed"
        /\ ReachedClass(r) = "Forward" /\ ReachedClass(q) = "Forward"

\* C15: up to the forwarding decision a request is suspended only in
\* verify_and_decode: call leaves it decided or verifying, with the token
\* already extracted and handed over; and once check has been called the
\* decision has been taken in the same step (downstream invoked, or the
\* attempt to, or Unauthorized), so no other request's step falls in between.
C15_OnlyVerifySuspends ==
    \A r \in ReqIds :
        /\ pc[r] \in {"Start", "Ready", "AwaitVerify", "ServiceFut", "AwaitService",
                      "Completed", "Panicked", "Dropped"}
        /\ pc[r] = "AwaitVerify" =>
              /\ verify_calls[r] = <<TokenOf(r)>>
              /\ check_calls[r] = <<>>
              /\ NeverForwarded(r)
        /\ check_calls[r] # <<>> =>
              \/ ForwardedOnce(r) /\ pc[r] \in {"AwaitService", "Completed", "Dropped"}
              \/ NeverForwarded(r) /\ pc[r] = "Panicked"
              \/ NeverForwarded(r) /\ RejectedUnauthorized(r)

\* Check was called and the forward followed in the same poll, while another
\* request was still verifying.
C15_Witness ==
    \E r, q \in ReqIds :
        /\ r # q /\ pc[q] = "AwaitVerify"
        /\ Len(check_calls[r]) = 1 /\ pc[r] = "AwaitService"
\* A poll of request r's future that makes progress.
PollOf(r) ==
    \/ poll_ready_err(r)
    \/ \E ready \in BOOLEAN, res \in AllResults : poll_async(r, ready, res)
    \/ \E res \in AllResults : poll_service(r, res)

\* C16: a request whose future keeps being polled reaches a terminal outcome
\* (the downstream's result, Unauthorized, or the propagated error): as long
\* as it has not, a further poll of it can make progress.
C16_EveryRequestTerminates ==
    \A r \in ReqIds :
        Called(r) => pc[r] \in {"Completed", "Dropped"} \/ ENABLED PollOf(r)

\* Requests suspended in a downstream call made after a successful check.
AuthenticatedInFlight == {r \in ReqIds : pc[r] = "AwaitService"}
\* This step of request r would access the service: an OPTIONS call, or the
\* poll that sees check succeed.
AccessesService(r) ==
    \/ pc[r] = "Start" /\ pc'[r] # "Start" /\ request'[r].method = "OPTIONS"
    \/ pc[r] = "AwaitVerify" /\ pc'[r] \notin {"AwaitVerify", "Dropped"} /\ CheckSucceeds(r)

\* C17: at most one forward of the authenticated path is in flight on one
\* middleware; its borrow of the service lasts until its downstream call
\* completes, and meanwhile another access to the service (an authenticated
\* forward, an OPTIONS forward, poll_ready) is a borrow conflict, not a second
\* call.
C17_OneAuthenticatedForward ==
    /\ [](/\ Cardinality(AuthenticatedInFlight) <= 1
          /\ refmut = AuthenticatedInFlight)
    /\ [][refmut # {} =>
            /\ service_calls' = service_calls
            /\ \A r \in ReqIds : AccessesService(r) => pc'[r] = "Panicked"
            /\ ready_ret' # ready_ret => ready_ret'.kind = "Panicked"]_vars

\* One forward suspended, a second request stopped by the conflict, and
\* poll_ready stopped by it too.
C17_Witness ==
    /\ ready_ret.kind = "Panicked"
    /\ \E r, q \in ReqIds :
        /\ pc[r] = "AwaitService" /\ refmut = {r}
        /\ pc[q] = "Panicked" /\ NeverForwarded(q)

\* C18: the options of a middleware never change after construction, and
\* every call of check is given options equal to them.
C18_OptionsNeverChange ==
    /\ [][validation_options' = validation_options]_vars
    /\ [](\A r \in ReqIds : \A i \in 1..Len(check_calls[r]) :
            check_calls[r][i][2] = validation_options)

\* Check was given options that are not the default ones, after another
\* request had been through check.
C18_Witness ==
    /\ validation_options = [issuer |-> "unknown"]
    /\ \E r, q \in ReqIds :
        /\ r < q /\ pc[r] = "Completed"
        /\ Len(check_calls[r]) = 1 /\ Len(check_calls[q]) = 1
        /\ check_calls[q][1][2] = [issuer |-> "unknown"]

\* C19: per request, verify_and_decode is called at most once, inside call,
\* with exactly what follows "Bearer "; check at most once and only after
\* verify_and_decode succeeded, on the claims it gave; the downstream at most
\* once and, unless the request is OPTIONS, only after check succeeded.
C19_CallOrder ==
    \A r \in ReqIds :
        /\ Len(verify_calls[r]) <= 1
        /\ Len(check_calls[r]) <= 1
        /\ Len(service_calls[r]) <= 1
        /\ verify_calls[r] # <<>> => HasBearerPrefix(r) /\ verify_calls[r] = <<TokenOf(r)>>
        /\ Called(r) /\ ~IsOptions(r) /\ HasBearerPrefix(r) => verify_calls[r] # <<>>
        /\ check_calls[r] # <<>> =>
              /\ VerifySucceeds(r)
              /\ check_calls[r][1][1] = checker_verify[TokenOf(r)][2]
        /\ service_calls[r] # <<>> /\ ~IsOptions(r) =>
              /\ check_calls[r] # <<>>
              /\ CheckSucceeds(r)

\* All three calls made for one request, each once.
C19_Witness ==
    \E r \in ReqIds :
        /\ ~IsOptions(r) /\ pc[r] = "Completed"
        /\ verify_calls[r] = <<(<<116>>)>>
        /\ Len(check_calls[r]) = 1
        /\ ForwardedOnce(r)

\* No request is in flight: each has not started, has ended, or was cancelled.
NoneInFlight == \A r \in ReqIds : pc[r] \in {"Start", "Completed", "Panicked", "Dropped"}

\* C20: whenever no request is in flight, however each one ended, the service
\* is not borrowed, so the next call or poll_ready borrows it without
\* conflict.
C20_IdleMeansUnborrowed ==
    /\ [](NoneInFlight => refmut = {})
    /\ [][NoneInFlight =>
            /\ ready_ret'.kind # "Panicked" \/ ready_ret' = ready_ret
            /\ \A r \in ReqIds : pc'[r] # "Panicked" \/ pc[r] = "Panicked"]_vars

\* Idle after a forward was cancelled in the downstream call and another
\* request completed; poll_ready then returned the service's answer.
C20_Witness ==
    /\ NoneInFlight
    /\ ready_ret.kind = "Returned"
    /\ \E r, q \in ReqIds :
        /\ pc[r] = "Dropped" /\ Len(check_calls[r]) = 1 /\ ForwardedOnce(r)
        /\ pc[q] = "Completed" /\ ForwardedOnce(q)
====
